---- MODULE Spec2Model ----
(***************************************************************************)
(* Model of the search-api query orchestration: the cache-aside request    *)
(* handler (app/main.py), the cache backends (app/cache), the provider     *)
(* fan-out with deduplication (app/google_places.py) and the upsert store  *)
(* (app/db.py).                                                            *)
(*                                                                         *)
(* Six specifications share the pure operators:                            *)
(*   Spec        concurrent requests against cache, provider and store;    *)
(*               one step per suspension point (await) of the handler.     *)
(*   SpecLive    the same requests with every await eventually resumed.    *)
(*   SpecFanout  one call of GooglePlacesClient.search_nearby, one step    *)
(*               per group request settling, then the merge.               *)
(*   SpecStale   one request served from a cache entry whose rows have     *)
(*               partly left the store.                                    *)
(*   SpecCache   direct calls of a cache backend: get, set, delete,        *)
(*               cleanup_expired.                                          *)
(*   SpecKey     two request bodies: the cache key and the categories      *)
(*               sent to the provider.                                     *)
(***************************************************************************)
EXTENDS Integers, Sequences, FiniteSets, TLC

(***************************************************************************)
(* Bounds of the model.                                                    *)
(***************************************************************************)
\* Requests handled in one behaviour of Spec.
NumRequests == 2
\* Provider ids are 1..NumIds; 0 stands for a record without an id.
NumIds == 2
\* Length of the modelled DEFAULT_TYPE_GROUPS list (15 in the source).
NumDefaultGroups == 2
\* Longest response of one group request in Spec (the provider caps it at 20).
MaxPerGroup == 1
\* Longest response of one group request in SpecFanout.
FanoutMaxPerGroup == 2
\* Largest max_results a request of Spec asks for (300 in the source).
MaxResultsCap == 2
\* Largest max_results of a search of SpecFanout.
FanoutMaxResults == 3
\* Clock ticks in one behaviour of SpecCache.
CacheMaxTicks == 1
\* Clock ticks in one behaviour of Spec.
MaxTicks == 1

(***************************************************************************)
(* Program constants.                                                      *)
(***************************************************************************)
\* settings.nearby_cache_ttl_seconds
nearby_cache_ttl_seconds == 900
\* included_types[:10]
MaxTypesPerRequest == 10
\* DEFAULT_TYPE_GROUPS[:15]
MaxDefaultRequests == 15

\* One clock tick, in seconds: an entry written before a tick has expired
\* after it.
TickSeconds == nearby_cache_ttl_seconds

(***************************************************************************)
(* Sequence helpers.                                                       *)
(***************************************************************************)
Range(s) == {s[i] : i \in 1..Len(s)}

Min(a, b) == IF a <= b THEN a ELSE b

\* Python's s[:n]
Take(s, n) == SubSeq(s, 1, Min(n, Len(s)))

SeqsUpTo(S, n) == UNION {[1..k -> S] : k \in 0..n}

RECURSIVE Flatten(_)
Flatten(ss) == IF ss = <<>> THEN <<>> ELSE Head(ss) \o Flatten(Tail(ss))

RECURSIVE SumLen(_)
SumLen(ss) == IF ss = <<>> THEN 0 ELSE Len(Head(ss)) + SumLen(Tail(ss))

NoDup(s) == \A i, j \in 1..Len(s) : s[i] = s[j] => i = j

\* All orderings of the members of a finite set.
Orderings(S) == {s \in [1..Cardinality(S) -> S] : NoDup(s)}

\* Insert x into the ascending sequence s.
RECURSIVE InsertSorted(_, _)
InsertSorted(x, s) ==
    IF s = <<>> THEN <<x>>
    ELSE IF x <= Head(s) THEN <<x>> \o s
    ELSE <<Head(s)>> \o InsertSorted(x, Tail(s))

\* Python's sorted(): categories are numbered in lexicographic order.
RECURSIVE sorted(_)
sorted(s) == IF s = <<>> THEN <<>> ELSE InsertSorted(Head(s), sorted(Tail(s)))

(***************************************************************************)
(* cache/base.py: generate_cache_key.  Coordinates are integers in         *)
(* ten-thousandths of a degree; the rounded coordinate is in thousandths.  *)
(* The key string "nearby:lat:lng:radius:types" is the tuple of its parts. *)
(***************************************************************************)
\* A rounding that cuts the digits after the third.
round3_truncating(x) ==
    LET a == IF x < 0 THEN -x ELSE x
    IN  [negative |-> x < 0, thousandths |-> a \div 10]

\* round(x, 3) as a float: its sign bit and its magnitude in thousandths.
\* The magnitude goes to the nearest thousandth, an exact tie to the even
\* one (a coordinate ending in 5 ten-thousandths is an exact tie as a double
\* only when it is a multiple of 0.0625; the coordinates drawn below hold
\* none ending in 5).  The sign is that of x: round(-0.0004, 3) is -0.0.
round3(x) ==
    LET a == IF x < 0 THEN -x ELSE x
        lo == a \div 10
        rem == a % 10
        up == rem > 5 \/ (rem = 5 /\ lo % 2 = 1)
    IN  [negative |-> x < 0, thousandths |-> IF up THEN lo + 1 ELSE lo]

\* A key built from the categories in the order supplied.
generate_cache_key_unsorted(lat, lng, radius, types) ==
    <<"nearby", round3(lat), round3(lng), radius, types>>

\* Lines 47-50.  The f-string prints each float with its sign, "-0.0" for
\* -0.0, so the text of a coordinate is its sign and magnitude.
generate_cache_key(lat, lng, radius, types) ==
    <<"nearby", round3(lat), round3(lng), radius, sorted(types)>>

(***************************************************************************)
(* cache/postgres.py and cache/redis.py.  The cache is a set of rows, at   *)
(* most one per key; `ok` is whether the backend answered the call.  A get *)
(* answers Ids(list), Absent (Python's None) or Raised.                    *)
(***************************************************************************)
Ids(place_ids) == [kind |-> "ids", place_ids |-> place_ids]
Absent == [kind |-> "none"]
Raised == [kind |-> "raise"]

\* json.dumps / json.loads of a list of strings: the text is not the list.
json_dumps(place_ids) == [json |-> place_ids]
json_loads(data) == data.json

\* SELECT ... WHERE cache_key = key AND expires_at > now; scalar_one_or_none
PostgresCache_get(c, key, now, ok) ==
    LET found == {e \in c : e.cache_key = key /\ e.expires_at > now}
    IN  IF ~ok THEN Raised
        ELSE IF found # {}
        THEN Ids((CHOOSE e \in found : TRUE).restaurant_place_ids)
        ELSE Absent

\* A set that, on conflict, updates the ids and keeps the expiry of the entry
\* it found.
PostgresCache_set_keep_expiry(c, key, place_ids, ttl_seconds, now, ok) ==
    LET old == {e \in c : e.cache_key = key}
    IN  IF ~ok THEN [cache |-> c, raised |-> TRUE]
        ELSE IF old = {}
        THEN [cache |-> c \cup {[cache_key |-> key,
                                 restaurant_place_ids |-> place_ids,
                                 expires_at |-> now + ttl_seconds]},
              raised |-> FALSE]
        ELSE [cache |-> (c \ old) \cup
                        {[e EXCEPT !.restaurant_place_ids = place_ids] : e \in old},
              raised |-> FALSE]

\* A set that ignores ttl_seconds: the entry expires as it is written.
PostgresCache_set_no_ttl(c, key, place_ids, ttl_seconds, now, ok) ==
    IF ~ok THEN [cache |-> c, raised |-> TRUE]
    ELSE [cache |-> {e \in c : e.cache_key # key} \cup
                    {[cache_key |-> key,
                      restaurant_place_ids |-> place_ids,
                      expires_at |-> now]},
          raised |-> FALSE]

\* INSERT ... ON CONFLICT (cache_key) DO UPDATE SET ids, expires_at; a
\* failure of the statement propagates.
PostgresCache_set(c, key, place_ids, ttl_seconds, now, ok) ==
    IF ~ok THEN [cache |-> c, raised |-> TRUE]
    ELSE [cache |-> {e \in c : e.cache_key # key} \cup
                    {[cache_key |-> key,
                      restaurant_place_ids |-> place_ids,
                      expires_at |-> now + ttl_seconds]},
          raised |-> FALSE]

\* A get without the try/except.
RedisCache_get_raising(c, key, now, ok) ==
    LET found == {e \in c : e.cache_key = key /\ e.expires_at > now}
    IN  IF ~ok THEN Raised
        ELSE IF found # {}
        THEN Ids(json_loads((CHOOSE e \in found : TRUE).data))
        ELSE Absent

\* GET key: a key past its native expiry is gone; errors are swallowed.
RedisCache_get(c, key, now, ok) ==
    LET found == {e \in c : e.cache_key = key /\ e.expires_at > now}
    IN  IF ~ok THEN Absent
        ELSE IF found # {}
        THEN Ids(json_loads((CHOOSE e \in found : TRUE).data))
        ELSE Absent

\* A SET ... KEEPTTL: the value is replaced, the expiry of a live key kept.
RedisCache_set_keep_ttl(c, key, place_ids, ttl_seconds, now, ok) ==
    LET live == {e \in c : e.cache_key = key /\ e.expires_at > now}
    IN  IF ~ok \/ ttl_seconds <= 0 THEN [cache |-> c, raised |-> FALSE]
        ELSE [cache |-> {e \in c : e.cache_key # key} \cup
                        {[cache_key |-> key,
                          data |-> json_dumps(place_ids),
                          expires_at |-> IF live = {} THEN now + ttl_seconds
                                         ELSE (CHOOSE e \in live : TRUE).expires_at]},
              raised |-> FALSE]

\* SETEX key ttl value: the server rejects ttl <= 0; errors are swallowed.
RedisCache_set(c, key, place_ids, ttl_seconds, now, ok) ==
    IF ~ok \/ ttl_seconds <= 0 THEN [cache |-> c, raised |-> FALSE]
    ELSE [cache |-> {e \in c : e.cache_key # key} \cup
                    {[cache_key |-> key,
                      data |-> json_dumps(place_ids),
                      expires_at |-> now + ttl_seconds]},
          raised |-> FALSE]

\* What delete and cleanup_expired return.
Bool(b) == [kind |-> "bool", value |-> b]
Count(n) == [kind |-> "count", value |-> n]

\* A delete that reports success whether or not it removed a row.
PostgresCache_delete_always_true(c, key, now, ok) ==
    IF ~ok THEN [cache |-> c, result |-> Raised, raised |-> TRUE]
    ELSE [cache |-> {e \in c : e.cache_key # key},
          result |-> Bool(TRUE),
          raised |-> FALSE]

\* DELETE ... WHERE cache_key = key; rowcount > 0.  A failure propagates.
PostgresCache_delete(c, key, now, ok) ==
    IF ~ok THEN [cache |-> c, result |-> Raised, raised |-> TRUE]
    ELSE [cache |-> {e \in c : e.cache_key # key},
          result |-> Bool({e \in c : e.cache_key = key} # {}),
          raised |-> FALSE]

\* DEL key: the number of keys removed, a key past its expiry not being
\* there; errors are swallowed.
RedisCache_delete(c, key, now, ok) ==
    IF ~ok THEN [cache |-> c, result |-> Bool(FALSE), raised |-> FALSE]
    ELSE [cache |-> {e \in c : e.cache_key # key},
          result |-> Bool({e \in c : e.cache_key = key /\ e.expires_at > now} # {}),
          raised |-> FALSE]

\* DELETE ... WHERE expires_at <= now; rowcount.  A failure propagates.
PostgresCache_cleanup_expired(c, now, ok) ==
    IF ~ok THEN [cache |-> c, result |-> Raised, raised |-> TRUE]
    ELSE [cache |-> {e \in c : e.expires_at > now},
          result |-> Count(Cardinality({e \in c : e.expires_at <= now})),
          raised |-> FALSE]

\* Redis expires keys itself: return 0, no call to the server.
RedisCache_cleanup_expired(c, now, ok) ==
    [cache |-> c, result |-> Count(0), raised |-> FALSE]

\* The backend get_cache() selected.
cache_get(backend, c, key, now, ok) ==
    IF backend = "redis" THEN RedisCache_get(c, key, now, ok)
    ELSE PostgresCache_get(c, key, now, ok)

cache_set(backend, c, key, place_ids, ttl_seconds, now, ok) ==
    IF backend = "redis"
    THEN RedisCache_set(c, key, place_ids, ttl_seconds, now, ok)
    ELSE PostgresCache_set(c, key, place_ids, ttl_seconds, now, ok)

cache_delete(backend, c, key, now, ok) ==
    IF backend = "redis" THEN RedisCache_delete(c, key, now, ok)
    ELSE PostgresCache_delete(c, key, now, ok)

cache_cleanup_expired(backend, c, now, ok) ==
    IF backend = "redis" THEN RedisCache_cleanup_expired(c, now, ok)
    ELSE PostgresCache_cleanup_expired(c, now, ok)

(***************************************************************************)
(* google_places.py: a provider record is [id, grp]: its provider id (0:   *)
(* none) and the group request whose response carried it (its payload).    *)
(***************************************************************************)
\* DEFAULT_TYPE_GROUPS: one list of categories per group.
DEFAULT_TYPE_GROUPS == [g \in 1..NumDefaultGroups |-> <<100 + g>>]

\* A grouping that sends every category supplied, ten to a request.
RECURSIVE type_groups_chunked(_)
type_groups_chunked(included_types) ==
    IF Len(included_types) = 0 THEN Take(DEFAULT_TYPE_GROUPS, MaxDefaultRequests)
    ELSE IF Len(included_types) <= MaxTypesPerRequest THEN <<included_types>>
    ELSE <<Take(included_types, MaxTypesPerRequest)>> \o
         type_groups_chunked(SubSeq(included_types, MaxTypesPerRequest + 1,
                                    Len(included_types)))

\* The groups requested: lines 136-140.
type_groups(included_types) ==
    IF Len(included_types) > 0
    THEN <<Take(included_types, MaxTypesPerRequest)>>
    ELSE Take(DEFAULT_TYPE_GROUPS, MaxDefaultRequests)

\* How one group request settles: it fails, or the provider answers with a
\* list of records.
Failed == [failed |-> TRUE, ids |-> <<>>]
Answered(ids) == [failed |-> FALSE, ids |-> ids]
GroupOutcomes(n) == {Failed} \cup {Answered(ids) : ids \in SeqsUpTo(0..NumIds, n)}

\* fetch_group: data.get("places", []), or [] when the request failed.
fetch_group(g, outcome) ==
    IF outcome.failed THEN <<>>
    ELSE [i \in 1..Len(outcome.ids) |-> [id |-> outcome.ids[i], grp |-> g]]

\* A merge in which a later record replaces the one already kept for its id.
RECURSIVE MergePlaces_last_wins(_, _)
MergePlaces_last_wins(all_places, places) ==
    IF places = <<>> THEN all_places
    ELSE LET place == Head(places)
             seen == {all_places[i].id : i \in 1..Len(all_places)}
         IN  IF place.id = 0 THEN MergePlaces_last_wins(all_places, Tail(places))
             ELSE IF place.id \notin seen
             THEN MergePlaces_last_wins(Append(all_places, place), Tail(places))
             ELSE MergePlaces_last_wins(
                    [i \in 1..Len(all_places) |->
                       IF all_places[i].id = place.id THEN place ELSE all_places[i]],
                    Tail(places))

\* A merge that tests only `place_id not in all_places`: a record without
\* an id is kept, once.
RECURSIVE MergePlaces_keeping_unidentified(_, _)
MergePlaces_keeping_unidentified(all_places, places) ==
    IF places = <<>> THEN all_places
    ELSE LET place == Head(places)
             seen == {all_places[i].id : i \in 1..Len(all_places)}
         IN  IF place.id \notin seen
             THEN MergePlaces_keeping_unidentified(Append(all_places, place),
                                                   Tail(places))
             ELSE MergePlaces_keeping_unidentified(all_places, Tail(places))

\* Lines 179-182: the ids seen so far are those of all_places.
RECURSIVE MergePlaces(_, _)
MergePlaces(all_places, places) ==
    IF places = <<>> THEN all_places
    ELSE LET place == Head(places)
             seen == {all_places[i].id : i \in 1..Len(all_places)}
         IN  IF place.id # 0 /\ place.id \notin seen
             THEN MergePlaces(Append(all_places, place), Tail(places))
             ELSE MergePlaces(all_places, Tail(places))

\* Lines 177-182: the results are merged in the order gather returns them.
RECURSIVE MergeResults(_, _)
MergeResults(all_places, results) ==
    IF results = <<>> THEN all_places
    ELSE MergeResults(MergePlaces(all_places, Head(results)), Tail(results))

\* A cut one record too late.
Truncate_one_more(result_list, max_results) == Take(result_list, max_results + 1)

\* Lines 184-186.
Truncate(result_list, max_results) == Take(result_list, max_results)

\* Lines 176-196: what search_nearby returns for the gathered results, with
\* its local result_list (line 184) kept beside them.
search_result(results, max_results) ==
    LET result_list == MergeResults(<<>>, results)
    IN  [places |-> Truncate(result_list, max_results),
         result_list |-> result_list,
         meta |-> [requests_made |-> Len(results),
                   raw_places |-> SumLen(results),
                   unique_places |-> Len(result_list),
                   truncated |-> Len(result_list) > max_results]]

\* parse_google_place: the fields the store keeps, stamped with the clock.
parse_google_place(place, now) ==
    [google_place_id |-> place.id, data |-> place.grp, last_fetched_at |-> now]

(***************************************************************************)
(* db.py: the restaurants table is a set of rows.                          *)
(***************************************************************************)
\* A plain INSERT into a table without the unique constraint.
UpsertRow_plain_insert(tbl, d, now) ==
    tbl \cup {[id |-> Cardinality(tbl) + 1,
               google_place_id |-> d.google_place_id,
               data |-> d.data,
               last_fetched_at |-> d.last_fetched_at,
               created_at |-> now]}

\* An upsert that, on conflict, also resets created_at.
UpsertRow_resetting_created_at(tbl, d, now) ==
    LET old == {r \in tbl : r.google_place_id = d.google_place_id}
    IN  IF old = {}
        THEN tbl \cup {[id |-> Cardinality(tbl) + 1,
                        google_place_id |-> d.google_place_id,
                        data |-> d.data,
                        last_fetched_at |-> d.last_fetched_at,
                        created_at |-> now]}
        ELSE (tbl \ old) \cup
             {[r EXCEPT !.data = d.data,
                        !.last_fetched_at = d.last_fetched_at,
                        !.created_at = now] : r \in old}

\* One row of INSERT ... ON CONFLICT (google_place_id) DO UPDATE.
UpsertRow(tbl, d, now) ==
    LET old == {r \in tbl : r.google_place_id = d.google_place_id}
    IN  IF old = {}
        THEN tbl \cup {[id |-> Cardinality(tbl) + 1,
                        google_place_id |-> d.google_place_id,
                        data |-> d.data,
                        last_fetched_at |-> d.last_fetched_at,
                        created_at |-> now]}
        ELSE (tbl \ old) \cup
             {[r EXCEPT !.data = d.data,
                        !.last_fetched_at = d.last_fetched_at] : r \in old}

RECURSIVE UpsertRows(_, _, _)
UpsertRows(tbl, restaurants_data, now) ==
    IF restaurants_data = <<>> THEN tbl
    ELSE UpsertRows(UpsertRow(tbl, Head(restaurants_data), now),
                    Tail(restaurants_data), now)

\* The statement fails as a whole on a NULL google_place_id and on a batch
\* that names one google_place_id twice.
BatchAccepted(restaurants_data) ==
    /\ \A i \in 1..Len(restaurants_data) : restaurants_data[i].google_place_id # 0
    /\ NoDup([i \in 1..Len(restaurants_data) |-> restaurants_data[i].google_place_id])

\* upsert_restaurants: the table after, and the rows RETURNING gives back.
upsert_restaurants(tbl, restaurants_data, now, ok) ==
    IF restaurants_data = <<>> THEN [table |-> tbl, rows |-> <<>>, raised |-> FALSE]
    ELSE IF ~ok \/ ~BatchAccepted(restaurants_data)
    THEN [table |-> tbl, rows |-> <<>>, raised |-> TRUE]
    ELSE LET after == UpsertRows(tbl, restaurants_data, now)
         IN  [table |-> after,
              rows |-> [i \in 1..Len(restaurants_data) |->
                          CHOOSE r \in after :
                            r.google_place_id = restaurants_data[i].google_place_id],
              raised |-> FALSE]

\* A lookup that returns nothing unless every id resolves.
get_restaurants_all_or_nothing(tbl, place_ids) ==
    IF place_ids = <<>> THEN {<<>>}
    ELSE IF \A i \in 1..Len(place_ids) :
              \E r \in tbl : r.google_place_id = place_ids[i]
    THEN Orderings({r \in tbl : r.google_place_id \in Range(place_ids)})
    ELSE {<<>>}

\* A lookup that resolves the first id only.
get_restaurants_by_first_place_id(tbl, place_ids) ==
    IF place_ids = <<>> THEN {<<>>}
    ELSE Orderings({r \in tbl : r.google_place_id = Head(place_ids)})

\* get_restaurants_by_place_ids: the rows matched, in no promised order.
get_restaurants_by_place_ids(tbl, place_ids) ==
    IF place_ids = <<>> THEN {<<>>}
    ELSE Orderings({r \in tbl : r.google_place_id \in Range(place_ids)})

\* [r.google_place_id for r in restaurants]
PlaceIds(rows) == [i \in 1..Len(rows) |-> rows[i].google_place_id]

(***************************************************************************)
(* State.                                                                  *)
(***************************************************************************)
VARIABLES
    cache_backend,  \* settings.cache_backend: "postgres" or "redis"
    cache,          \* the cache backend's rows
    restaurants,    \* the restaurants table
    clock,          \* the time, in seconds
    req,            \* the requests: inputs, position in the handler, response
    fan,            \* one search_nearby call: its group requests and result
    ops,            \* direct calls of the cache backend: the last one, and
                    \* the most recent set of each key
    queries         \* request bodies whose key and provider query are built

vars == <<cache_backend, cache, restaurants, clock, req, fan, ops, queries>>

Requests == 1..NumRequests

\* The inputs requests draw from: coordinates in ten-thousandths of a degree.
Lats == {407128, 407131}
Lngs == {-740060}
Radii == {1500}
TypeLists == {<<>>, <<1>>}
HeaderValues == {"absent", "true", "false"}

\* The meta dict before search_nearby has returned it.
NoMeta == [requests_made |-> 0, raw_places |-> 0, unique_places |-> 0,
           truncated |-> FALSE]

\* pc is the await the handler is suspended at; outcome is how it ended;
\* raised_in names the call whose exception ended it.  started_after (the
\* requests already answered when this one arrived), cache_reads,
\* provider_calls, all_groups_failed, upserts and cache_writes (the
\* arguments of each cache.set call, the time of the call and whether the
\* backend accepted it) record what the request did.
IdleRequest ==
    [pc |-> "idle", outcome |-> "none", raised_in |-> "none",
     started_after |-> {},
     cache_key |-> <<>>, included_types |-> <<>>, max_results |-> 0,
     skip_cache |-> FALSE,
     cached_place_ids |-> <<>>, places |-> <<>>,
     restaurants_data |-> <<>>, restaurants |-> <<>>, cached |-> FALSE,
     cache_reads |-> 0, provider_calls |-> 0, all_groups_failed |-> FALSE,
     upserts |-> 0, cache_writes |-> <<>>]

\* search_nearby not yet called.
IdleFan ==
    [pc |-> "idle", included_types |-> <<>>, max_results |-> 0,
     type_groups |-> <<>>, tasks |-> <<>>, order |-> <<>>,
     result_list |-> <<>>, places |-> <<>>, meta |-> NoMeta]

\* The keys the direct calls use.
CacheKeys ==
    {generate_cache_key(lat, lng, radius, types) :
       lat \in Lats, lng \in Lngs, radius \in Radii, types \in TypeLists}

\* No direct call made yet.  `last` is the last call (its time, its result,
\* whether it raised, whether the backend answered it, whether the call
\* before it had failed); last_set[k] is the most recent set of k the
\* backend answered and whether a delete has removed the key since.
NoCall ==
    [op |-> "none", key |-> <<>>, at |-> 0, ok |-> TRUE, result |-> Absent,
     raised |-> FALSE, after_failure |-> FALSE]
NoSet ==
    [made |-> FALSE, place_ids |-> <<>>, ttl_seconds |-> 0, at |-> 0,
     removed |-> FALSE]
IdleOps == [last |-> NoCall, last_set |-> [k \in CacheKeys |-> NoSet]]

\* No request body under study.
NoQueries == <<>>

Init ==
    /\ cache_backend \in {"postgres", "redis"}
    /\ cache = {}
    /\ restaurants = {}
    /\ clock = 0
    /\ req = [r \in Requests |-> IdleRequest]
    /\ fan = IdleFan
    /\ ops = IdleOps
    /\ queries = NoQueries

\* The handler returns a response.
Finish(r, outcome, fields) ==
    req' = [req EXCEPT ![r] = [fields EXCEPT !.pc = "done", !.outcome = outcome]]

\* The handler ends with the exception `call` raised, as the handler (lines
\* 197-202, 240-247) or the application (lines 83-96) turns it into an error.
Fail(r, outcome, call, fields) ==
    req' = [req EXCEPT ![r] = [fields EXCEPT !.pc = "done", !.outcome = outcome,
                                             !.raised_in = call]]

\* The HTTP status of each outcome: lines 178, 205 and 229 (a response),
\* 200 (503), 245 (500) and 91 (500).
http_status(outcome) ==
    CASE outcome \in {"hit", "empty", "ok"} -> 200
      [] outcome = "provider_unavailable" -> 503
      [] outcome = "storage_error" -> 500
      [] outcome = "internal_error" -> 500
      [] OTHER -> 0

\* Line 160.
skip_cache_of(x_skip_cache) == x_skip_cache = "true"

\* A handler that reads the cache whatever the header says.
first_await_ignoring_header(skip_cache) == "check_cache"

\* Line 171: the first await of the handler.
first_await(skip_cache) == IF skip_cache THEN "fetch" ELSE "check_cache"

\* A handler without the empty-result branch.
no_places_never(places) == FALSE

\* Line 204: if not places.
no_places(places) == places = <<>>

\* Lines 159-171: the key is built; the next await is the cache read, or the
\* provider search when X-Skip-Cache is "true".
StartRequest(r) ==
    /\ req[r].pc = "idle"
    /\ \E lat \in Lats, lng \in Lngs, radius \in Radii, types \in TypeLists,
          max_results \in 1..MaxResultsCap, x_skip_cache \in HeaderValues :
         req' = [req EXCEPT ![r] =
                   [@ EXCEPT !.cache_key = generate_cache_key(lat, lng, radius, types),
                             !.included_types = types,
                             !.max_results = max_results,
                             !.skip_cache = skip_cache_of(x_skip_cache),
                             !.started_after = {q \in Requests : req[q].pc = "done"},
                             !.pc = first_await(skip_cache_of(x_skip_cache))]]
    /\ UNCHANGED <<cache_backend, cache, restaurants, clock, fan, ops, queries>>

\* Lines 172-174: await cache.get.  A raise is not caught by the handler.
CheckCache(r) ==
    /\ req[r].pc = "check_cache"
    /\ \E ok \in BOOLEAN :
         LET got == cache_get(cache_backend, cache, req[r].cache_key, clock, ok)
             read == [req[r] EXCEPT !.cache_reads = @ + 1]
         IN  IF got = Raised THEN Fail(r, "internal_error", "cache.get", read)
             ELSE IF got = Absent
             THEN req' = [req EXCEPT ![r] = [read EXCEPT !.pc = "fetch"]]
             ELSE req' = [req EXCEPT ![r] =
                            [read EXCEPT !.pc = "hit_lookup",
                                         !.cached_place_ids = got.place_ids]]
    /\ UNCHANGED <<cache_backend, cache, restaurants, clock, fan, ops, queries>>

\* Lines 176-183: await get_restaurants_by_place_ids, then the response.
HitReturn(r) ==
    /\ req[r].pc = "hit_lookup"
    /\ \E ok \in BOOLEAN :
         IF ~ok THEN Fail(r, "internal_error", "get_restaurants_by_place_ids", req[r])
         ELSE \E rows \in get_restaurants_by_place_ids(restaurants,
                                                      req[r].cached_place_ids) :
                Finish(r, "hit", [req[r] EXCEPT !.restaurants = rows,
                                                !.cached = TRUE])
    /\ UNCHANGED <<cache_backend, cache, restaurants, clock, fan, ops, queries>>

\* A handler without the try/except around search_nearby.
FetchRaises_uncaught(r) ==
    /\ req[r].pc = "fetch"
    /\ Fail(r, "internal_error", "search_nearby", req[r])
    /\ UNCHANGED <<cache_backend, cache, restaurants, clock, fan, ops, queries>>

\* A handler whose except clause logs the error and falls through to the
\* empty response (the one lines 210-214 guard with "places_meta" in
\* locals()).
FetchRaises_falling_through(r) ==
    /\ req[r].pc = "fetch"
    /\ Finish(r, "empty", req[r])
    /\ UNCHANGED <<cache_backend, cache, restaurants, clock, fan, ops, queries>>

\* Lines 188-202: search_nearby itself raises.
FetchRaises(r) ==
    /\ req[r].pc = "fetch"
    /\ Fail(r, "provider_unavailable", "search_nearby", req[r])
    /\ UNCHANGED <<cache_backend, cache, restaurants, clock, fan, ops, queries>>

\* Lines 188-220: await search_nearby (every group request settles), then
\* the empty response, or the records parsed for the upsert.
Fetch(r) ==
    /\ req[r].pc = "fetch"
    /\ LET groups == type_groups(req[r].included_types)
       IN  \E outcomes \in [1..Len(groups) -> GroupOutcomes(MaxPerGroup)] :
             LET results == [g \in 1..Len(groups) |-> fetch_group(g, outcomes[g])]
                 found == search_result(results, req[r].max_results)
                 called == [req[r] EXCEPT
                              !.provider_calls = @ + Len(groups),
                              !.all_groups_failed =
                                  \A g \in 1..Len(groups) : outcomes[g].failed,
                              !.places = found.places]
             IN  IF no_places(found.places) THEN Finish(r, "empty", called)
                 ELSE req' = [req EXCEPT ![r] =
                        [called EXCEPT
                           !.pc = "upsert",
                           !.restaurants_data =
                               [i \in 1..Len(found.places) |->
                                  parse_google_place(found.places[i], clock)]]]
    /\ UNCHANGED <<cache_backend, cache, restaurants, clock, fan, ops, queries>>

\* A handler that caches the fetched ids although the upsert failed.
Upsert_caching_on_failure(r) ==
    /\ req[r].pc = "upsert"
    /\ \E ok \in BOOLEAN :
         LET done == upsert_restaurants(restaurants, req[r].restaurants_data, clock, ok)
             tried == [req[r] EXCEPT !.upserts = @ + 1]
             ids == [i \in 1..Len(req[r].restaurants_data) |->
                       req[r].restaurants_data[i].google_place_id]
         IN  IF done.raised
             THEN /\ Fail(r, "storage_error", "upsert_restaurants", tried)
                  /\ cache' = cache_set(cache_backend, cache, req[r].cache_key, ids,
                                        nearby_cache_ttl_seconds, clock, TRUE).cache
                  /\ UNCHANGED restaurants
             ELSE /\ restaurants' = done.table
                  /\ req' = [req EXCEPT ![r] =
                               [tried EXCEPT !.pc = "cache_write",
                                             !.restaurants = done.rows]]
                  /\ UNCHANGED cache
    /\ UNCHANGED <<cache_backend, clock, fan, ops, queries>>

\* A handler that logs a failed upsert and goes on to the cache write.
Upsert_ignoring_failure(r) ==
    /\ req[r].pc = "upsert"
    /\ \E ok \in BOOLEAN :
         LET done == upsert_restaurants(restaurants, req[r].restaurants_data, clock, ok)
             tried == [req[r] EXCEPT !.upserts = @ + 1]
         IN  /\ restaurants' = done.table
             /\ req' = [req EXCEPT ![r] =
                          [tried EXCEPT !.pc = "cache_write",
                                        !.restaurants = done.rows]]
    /\ UNCHANGED <<cache_backend, cache, clock, fan, ops, queries>>

\* Lines 222-223 and 240-247: await upsert_restaurants.
Upsert(r) ==
    /\ req[r].pc = "upsert"
    /\ \E ok \in BOOLEAN :
         LET done == upsert_restaurants(restaurants, req[r].restaurants_data, clock, ok)
             tried == [req[r] EXCEPT !.upserts = @ + 1]
         IN  IF done.raised
             THEN /\ Fail(r, "storage_error", "upsert_restaurants", tried)
                  /\ UNCHANGED restaurants
             ELSE /\ restaurants' = done.table
                  /\ req' = [req EXCEPT ![r] =
                               [tried EXCEPT !.pc = "cache_write",
                                             !.restaurants = done.rows]]
    /\ UNCHANGED <<cache_backend, cache, clock, fan, ops, queries>>

\* Lines 225-247: await cache.set, then the response.
CacheWrite(r) ==
    /\ req[r].pc = "cache_write"
    /\ \E ok \in BOOLEAN :
         LET place_ids == PlaceIds(req[r].restaurants)
             written == cache_set(cache_backend, cache, req[r].cache_key, place_ids,
                                  nearby_cache_ttl_seconds, clock, ok)
             wrote == [req[r] EXCEPT !.cache_writes =
                         Append(@, [cache_key |-> req[r].cache_key,
                                    place_ids |-> place_ids,
                                    ttl_seconds |-> nearby_cache_ttl_seconds,
                                    at |-> clock,
                                    accepted |-> ok])]
         IN  /\ cache' = written.cache
             /\ IF written.raised THEN Fail(r, "storage_error", "cache.set", wrote)
                ELSE Finish(r, "ok", wrote)
    /\ UNCHANGED <<cache_backend, restaurants, clock, fan, ops, queries>>

\* Time passes.
Tick ==
    /\ clock + TickSeconds <= MaxTicks * TickSeconds
    /\ clock' = clock + TickSeconds
    /\ UNCHANGED <<cache_backend, cache, restaurants, req, fan, ops, queries>>

Next ==
    \/ \E r \in Requests :
         \/ StartRequest(r)
         \/ CheckCache(r)
         \/ HitReturn(r)
         \/ FetchRaises(r)
         \/ Fetch(r)
         \/ Upsert(r)
         \/ CacheWrite(r)
    \/ Tick

Spec == Init /\ [][Next]_vars

\* One step of request r after it has arrived: an await of the handler
\* settles.
HandlerStep(r) ==
    \/ CheckCache(r)
    \/ HitReturn(r)
    \/ FetchRaises(r)
    \/ Fetch(r)
    \/ Upsert(r)
    \/ CacheWrite(r)

\* The requests with the clock standing still: whether a request ends does
\* not depend on the time.
NextLive == \E r \in Requests : StartRequest(r) \/ HandlerStep(r)

\* Every cache, provider and store operation of a request that has arrived
\* eventually settles: the event loop resumes the handler.
SpecLive ==
    /\ Init
    /\ [][NextLive]_vars
    /\ \A r \in Requests : WF_vars(HandlerStep(r))

(***************************************************************************)
(* Properties of the request handler, checked under Spec.                  *)
(***************************************************************************)
\* The request was served from the cache: cache.get answered with ids.
HitPath(r) ==
    \/ req[r].pc = "hit_lookup"
    \/ req[r].outcome = "hit"
    \/ req[r].raised_in = "get_restaurants_by_place_ids"

\* The row a backend holds for a write of place_ids under key at expires_at.
CacheRow(backend, key, place_ids, expires_at) ==
    IF backend = "redis"
    THEN [cache_key |-> key, data |-> [json |-> place_ids], expires_at |-> expires_at]
    ELSE [cache_key |-> key, restaurant_place_ids |-> place_ids,
          expires_at |-> expires_at]

RowsOf(c, key) == {e \in c : e.cache_key = key}
OtherRows(c, key) == {e \in c : e.cache_key # key}

\* The live entry the cache holds for key, read without a backend error.
LiveIds(key) == cache_get(cache_backend, cache, key, clock, TRUE)

\* Request r steps from the await `from`.
Leaves(r, from) == req[r].pc = from /\ req'[r].pc # from

\* No request other than r has had a cache write under key accepted.
NoOtherWriter(r, key) ==
    \A q \in Requests \ {r} :
      \A i \in 1..Len(req[q].cache_writes) :
        req[q].cache_writes[i].cache_key = key => ~req[q].cache_writes[i].accepted

\* r2 is a request identical to r1 that arrived after r1 was answered.
LaterIdentical(r1, r2) ==
    /\ r1 # r2
    /\ r1 \in req[r2].started_after
    /\ req[r2].cache_key = req[r1].cache_key
    /\ req[r2].included_types = req[r1].included_types
    /\ req[r2].max_results = req[r1].max_results
    /\ req[r2].skip_cache = req[r1].skip_cache

\* search_nearby has returned to request r.
Fetched(r) ==
    \/ req[r].pc \in {"upsert", "cache_write"}
    \/ req[r].outcome \in {"empty", "ok", "storage_error"}

C1_HitState ==
    \A r \in Requests : HitPath(r) =>
      /\ ~req[r].skip_cache
      /\ req[r].provider_calls = 0
      /\ req[r].upserts = 0
      /\ req[r].cache_writes = <<>>
      /\ req[r].outcome = "hit" =>
           /\ req[r].cached
           /\ http_status(req[r].outcome) = 200
           /\ NoDup(PlaceIds(req[r].restaurants))
           /\ Range(PlaceIds(req[r].restaurants)) \subseteq Range(req[r].cached_place_ids)

C1_HitStep ==
    \A r \in Requests :
      /\ Leaves(r, "check_cache") /\ ~req[r].skip_cache =>
           \* an entry the backend reports is taken: the handler goes on to
           \* the provider only when the read found none (or Redis failed)
           /\ req'[r].pc = "hit_lookup" =>
                LiveIds(req[r].cache_key) = Ids(req'[r].cached_place_ids)
           /\ req'[r].pc = "fetch" =>
                LiveIds(req[r].cache_key) = Absent \/ cache_backend = "redis"
           /\ (cache_backend = "postgres" /\ LiveIds(req[r].cache_key) # Absent) =>
                req'[r].pc = "hit_lookup" \/ req'[r].raised_in = "cache.get"
      /\ Leaves(r, "hit_lookup") =>
           /\ cache' = cache
           /\ restaurants' = restaurants
           /\ req'[r].outcome = "hit" =>
                Range(req'[r].restaurants) =
                  {row \in restaurants :
                     row.google_place_id \in Range(req[r].cached_place_ids)}

\* C1: a request without the bypass flag whose cache read returns an id
\* sequence answers with the rows those ids resolve to and cached = true,
\* and makes no provider call, no upsert and no cache write.
C1_CacheHit == []C1_HitState /\ [][C1_HitStep]_vars

C1_Witness ==
    \E r \in Requests :
      /\ req[r].outcome = "hit"
      /\ Len(req[r].restaurants) = 2
      /\ req[r].cache_reads = 1

\* The fetch of r returned records, its upsert succeeded, and r was answered
\* with no call raising.
MissAnswered(r) ==
    /\ req[r].pc = "done"
    /\ req[r].raised_in = "none"
    /\ Fetched(r)
    /\ req[r].places # <<>>

C2_OkState ==
    \A r \in Requests : MissAnswered(r) =>
      /\ req[r].outcome = "ok"
      /\ req[r].upserts = 1
      /\ ~req[r].cached
      /\ http_status(req[r].outcome) = 200
      \* the rows returned are the upsert's: one stored row per fetched record
      /\ Len(req[r].restaurants) = Len(req[r].places)
      /\ Range(PlaceIds(req[r].restaurants)) =
           {req[r].places[i].id : i \in 1..Len(req[r].places)}
      /\ \A i \in 1..Len(req[r].restaurants) :
           \E row \in restaurants :
             /\ row.id = req[r].restaurants[i].id
             /\ row.google_place_id = req[r].restaurants[i].google_place_id
      \* one cache.set call: this key, those ids in that order, the TTL
      /\ Len(req[r].cache_writes) = 1
      /\ req[r].cache_writes[1].cache_key = req[r].cache_key
      /\ req[r].cache_writes[1].place_ids = PlaceIds(req[r].restaurants)
      /\ req[r].cache_writes[1].ttl_seconds = nearby_cache_ttl_seconds

C2_WriteStep ==
    \A r \in Requests :
      (Leaves(r, "cache_write") /\ req'[r].cache_writes[1].accepted) =>
        /\ RowsOf(cache', req[r].cache_key) =
             {CacheRow(cache_backend, req[r].cache_key,
                       PlaceIds(req[r].restaurants),
                       clock + nearby_cache_ttl_seconds)}
        /\ OtherRows(cache', req[r].cache_key) = OtherRows(cache, req[r].cache_key)
        /\ req'[r].outcome = "ok"
        /\ req'[r].restaurants = req[r].restaurants

\* C2: a request whose fetch returned records and whose upsert succeeded,
\* and that answers, has made one cache.set call under its key with the
\* provider ids of the upsert result in upsert-result order and the
\* configured TTL, and answers with exactly those rows in that order and
\* cached = false; a call the backend accepts leaves exactly that entry,
\* expiring one TTL after the call.
C2_SuccessfulMiss == []C2_OkState /\ [][C2_WriteStep]_vars

C2_Witness ==
    \E r \in Requests :
      /\ MissAnswered(r)
      /\ Len(req[r].restaurants) = 2
      /\ req[r].cache_writes[1].accepted
      /\ RowsOf(cache, req[r].cache_key) # {}

C3_RaisedState ==
    \A r \in Requests : req[r].raised_in = "search_nearby" =>
      /\ req[r].outcome = "provider_unavailable"
      /\ http_status(req[r].outcome) = 503
      /\ req[r].upserts = 0
      /\ req[r].cache_writes = <<>>
      /\ req[r].restaurants = <<>>

C3_RaisedStep ==
    \A r \in Requests :
      (Leaves(r, "fetch") /\ req'[r].raised_in = "search_nearby") =>
        cache' = cache /\ restaurants' = restaurants

\* C3: when search_nearby itself raises, the request fails with the
\* provider-unavailable condition (503), and it makes no upsert and no
\* cache write: cache and store are as they were.
C3_ProviderFailure == []C3_RaisedState /\ [][C3_RaisedStep]_vars

C3_Witness ==
    \E r \in Requests :
      /\ req[r].raised_in = "search_nearby"
      /\ req[r].pc = "done"
      /\ cache # {}
      /\ restaurants # {}

C4_FailedState ==
    \A r \in Requests : req[r].raised_in = "upsert_restaurants" =>
      /\ req[r].outcome = "storage_error"
      /\ http_status(req[r].outcome) = 500
      /\ http_status(req[r].outcome) # http_status("provider_unavailable")
      /\ req[r].cache_writes = <<>>

C4_Retry ==
    \A r1, r2 \in Requests :
      (/\ req[r1].raised_in = "upsert_restaurants"
       /\ LaterIdentical(r1, r2)
       /\ NoOtherWriter(r2, req[r2].cache_key)) =>
        \* the retry is not served from the cache
        /\ ~HitPath(r2)
        \* and, the provider answering with records and no call failing,
        \* it upserts, writes the cache and succeeds
        /\ (req[r2].pc = "done" /\ req[r2].raised_in = "none"
              /\ req[r2].places # <<>>) =>
             /\ req[r2].outcome = "ok"
             /\ req[r2].provider_calls > 0
             /\ req[r2].upserts = 1
             /\ Len(req[r2].cache_writes) = 1

C4_FailedStep ==
    \A r \in Requests :
      (Leaves(r, "upsert") /\ req'[r].raised_in = "upsert_restaurants") =>
        cache' = cache /\ restaurants' = restaurants

\* C4: when the batch upsert fails, the request fails with the
\* storage-error condition (500, not the provider-unavailable 503), it
\* makes no cache write and leaves cache and store as they were; a later
\* identical request is not served from the cache and, once the store
\* answers, fetches, upserts, writes the cache and succeeds.
C4_UpsertFailure == [](C4_FailedState /\ C4_Retry) /\ [][C4_FailedStep]_vars

C4_Witness ==
    \E r1, r2 \in Requests :
      /\ req[r1].raised_in = "upsert_restaurants"
      /\ LaterIdentical(r1, r2)
      /\ ~req[r2].skip_cache
      /\ req[r2].outcome = "ok"
      /\ req[r2].cache_reads = 1
      /\ RowsOf(cache, req[r2].cache_key) # {}

C5_EmptyState ==
    \A r \in Requests :
      /\ req[r].outcome = "empty" =>
           /\ req[r].places = <<>>
           /\ req[r].restaurants = <<>>
           /\ ~req[r].cached
           /\ http_status(req[r].outcome) = 200
           /\ req[r].upserts = 0
           /\ req[r].cache_writes = <<>>
      \* a fetch that yields no record ends in the empty response
      /\ (Fetched(r) /\ req[r].places = <<>>) => req[r].outcome = "empty"

C5_NextRequest ==
    \A r1, r2 \in Requests :
      (/\ req[r1].outcome = "empty"
       /\ LaterIdentical(r1, r2)
       /\ NoOtherWriter(r2, req[r2].cache_key)) =>
        /\ ~HitPath(r2)
        /\ Fetched(r2) =>
             req[r2].provider_calls = Len(type_groups(req[r2].included_types))
        /\ (req[r2].pc = "done" /\ req[r2].raised_in = "none") => Fetched(r2)

C5_EmptyStep ==
    \A r \in Requests :
      (Leaves(r, "fetch") /\ req'[r].outcome = "empty") =>
        cache' = cache /\ restaurants' = restaurants

\* C5: a fetch that yields zero records after dedup ends in an empty
\* response with cached = false, with no upsert and no cache write, so that
\* a later identical request (no entry having been written for the key) is
\* not served from the cache and queries the provider again.
C5_EmptyNotCached == [](C5_EmptyState /\ C5_NextRequest) /\ [][C5_EmptyStep]_vars

C5_Witness ==
    \E r1, r2 \in Requests :
      /\ req[r1].outcome = "empty"
      /\ ~req[r1].all_groups_failed
      /\ LaterIdentical(r1, r2)
      /\ ~req[r2].skip_cache
      /\ req[r2].cache_reads = 1
      /\ req[r2].provider_calls > 0

C6_BypassState ==
    \A r \in Requests : req[r].skip_cache =>
      \* never reads the cache
      /\ req[r].cache_reads = 0
      /\ req[r].pc # "check_cache"
      /\ ~HitPath(r)
      \* always calls the provider
      /\ req[r].pc = "done" =>
           req[r].raised_in = "search_nearby" \/ req[r].provider_calls > 0
      \* and, past the upsert, makes the cache.set call for its key
      /\ (req[r].pc = "done" /\ req[r].upserts = 1
            /\ req[r].raised_in # "upsert_restaurants") =>
           /\ Len(req[r].cache_writes) = 1
           /\ req[r].cache_writes[1].cache_key = req[r].cache_key
           /\ req[r].cache_writes[1].place_ids = PlaceIds(req[r].restaurants)

C6_BypassStep ==
    \A r \in Requests : req[r].skip_cache =>
      /\ (Leaves(r, "fetch") /\ req'[r].raised_in = "none") =>
           req'[r].provider_calls = Len(type_groups(req[r].included_types))
      /\ Leaves(r, "upsert") =>
           req'[r].pc = "cache_write" \/ req'[r].raised_in = "upsert_restaurants"
      /\ (Leaves(r, "cache_write") /\ req'[r].cache_writes[1].accepted) =>
           \* whatever entry the key had is replaced
           RowsOf(cache', req[r].cache_key) =
             {CacheRow(cache_backend, req[r].cache_key,
                       PlaceIds(req[r].restaurants),
                       clock + nearby_cache_ttl_seconds)}

\* C6: a request carrying X-Skip-Cache: true never reads the cache, always
\* calls the provider whatever the cache holds for its key, and after a
\* non-empty fetch and a successful upsert still makes the cache write for
\* its key, which replaces any entry the key had.
C6_Bypass == []C6_BypassState /\ [][C6_BypassStep]_vars

\* A bypass request has replaced a live entry written by another request.
C6_Witness ==
    \E r, q \in Requests :
      /\ r # q
      /\ req[r].skip_cache
      /\ req[r].outcome = "ok"
      /\ req[r].cache_writes[1].accepted
      /\ req[q].outcome = "ok"
      /\ req[q].cache_key = req[r].cache_key
      /\ req[q].cache_writes[1].accepted
      /\ q \in req[r].started_after
      /\ req[q].cache_writes[1].at = req[r].cache_writes[1].at
      /\ req[q].cache_writes[1].place_ids # req[r].cache_writes[1].place_ids
      /\ RowsOf(cache, req[r].cache_key) =
           {CacheRow(cache_backend, req[r].cache_key,
                     req[r].cache_writes[1].place_ids,
                     req[r].cache_writes[1].at + nearby_cache_ttl_seconds)}

\* C7: when every group request of a search fails, the request is answered
\* with the provider-unavailable failure.
C7_AllGroupsFailed ==
    \A r \in Requests :
      (req[r].pc = "done" /\ req[r].all_groups_failed) =>
        req[r].outcome = "provider_unavailable"

\* The entry an accepted cache.set call w leaves.
WrittenRow(w) ==
    CacheRow(cache_backend, w.cache_key, w.place_ids, w.at + w.ttl_seconds)

\* Requests r1 and r2 overlapped: neither arrived after the other's answer.
Concurrent(r1, r2) ==
    /\ r1 # r2
    /\ r1 \notin req[r2].started_after
    /\ r2 \notin req[r1].started_after

C11_EntryState ==
    \* one entry per key at most, and each entry is wholly that of one
    \* accepted cache.set call
    /\ \A e \in cache : RowsOf(cache, e.cache_key) = {e}
    /\ \A e \in cache :
         \E r \in Requests : \E i \in 1..Len(req[r].cache_writes) :
           req[r].cache_writes[i].accepted /\ e = WrittenRow(req[r].cache_writes[i])

C11_EntryStep ==
    \* an accepted write leaves the writer's ids and expiry under its key,
    \* whatever was there, and no step of a request but an accepted write
    \* changes an entry
    /\ \A r \in Requests :
         (Leaves(r, "cache_write") /\ req'[r].cache_writes[1].accepted) =>
           RowsOf(cache', req[r].cache_key) = {WrittenRow(req'[r].cache_writes[1])}
    /\ cache' # cache =>
         \E r \in Requests :
           /\ Leaves(r, "cache_write")
           /\ req'[r].cache_writes[1].accepted
           /\ OtherRows(cache', req[r].cache_key) = OtherRows(cache, req[r].cache_key)

\* C11: requests for one key are not excluded from one another: two that
\* both miss may both fetch, both upsert and both write the cache; each
\* accepted write replaces the key's entry by the writer's ids and expiry, so
\* the entry left is wholly the last writer's, never a mixture.
C11_SameKeyRace == []C11_EntryState /\ [][C11_EntryStep]_vars

\* Two overlapping requests for one key both missed, fetched, upserted and
\* wrote; the entry is the second writer's, written after the first one's.
C11_Witness ==
    \E r1, r2 \in Requests :
      /\ Concurrent(r1, r2)
      /\ req[r1].cache_key = req[r2].cache_key
      /\ \A r \in {r1, r2} :
           /\ ~req[r].skip_cache
           /\ req[r].cache_reads = 1
           /\ req[r].outcome = "ok"
           /\ req[r].upserts = 1
           /\ req[r].cache_writes[1].accepted
      /\ req[r1].cache_writes[1].place_ids # req[r2].cache_writes[1].place_ids
      /\ req[r1].cache_writes[1].at < req[r2].cache_writes[1].at
      /\ RowsOf(cache, req[r2].cache_key) = {WrittenRow(req[r2].cache_writes[1])}

\* C12: the store never holds two rows for one provider id.
C12_UniqueProviderId ==
    \A a, b \in restaurants : a.google_place_id = b.google_place_id => a = b

\* Two requests have upserted the same provider id.
C12_Witness ==
    /\ Cardinality(restaurants) = 2
    /\ \E r1, r2 \in Requests :
         /\ r1 # r2
         /\ req[r1].outcome = "ok" /\ req[r2].outcome = "ok"
         /\ Range(PlaceIds(req[r1].restaurants)) \cap
              Range(PlaceIds(req[r2].restaurants)) # {}

\* C13: no step lowers the last_fetched_at stored for a provider id.
C13_NeverRegresses ==
    [][\A a \in restaurants : \A b \in restaurants' :
         a.google_place_id = b.google_place_id =>
           b.last_fetched_at >= a.last_fetched_at]_vars

C14_UpsertStep ==
    \A r \in Requests :
      (Leaves(r, "upsert") /\ req'[r].raised_in = "none") =>
        LET batch == req[r].restaurants_data
            given == {batch[i].google_place_id : i \in 1..Len(batch)}
            known == {row.google_place_id : row \in restaurants}
        IN  /\ \A i \in 1..Len(batch) :
                 LET old == {row \in restaurants :
                               row.google_place_id = batch[i].google_place_id}
                     new == {row \in restaurants' :
                               row.google_place_id = batch[i].google_place_id}
                 IN  /\ Cardinality(new) = 1
                     /\ \A n \in new :
                          /\ n.data = batch[i].data
                          /\ n.last_fetched_at = batch[i].last_fetched_at
                          /\ \A o \in old :
                               n.id = o.id /\ n.created_at = o.created_at
                          /\ old = {} =>
                               \A o \in restaurants : n.id # o.id
            /\ {row \in restaurants' : row.google_place_id \notin given} =
                 {row \in restaurants : row.google_place_id \notin given}
            /\ Cardinality(restaurants') =
                 Cardinality(restaurants) + Cardinality(given \ known)

\* C14: a successful upsert leaves, for each provider id of the batch, one
\* row holding the batch's values; a row that existed keeps its generated id
\* and created_at, a new provider id gets one new row, and the rows of other
\* provider ids are untouched.
C14_UpsertOverwrite == [][C14_UpsertStep]_vars

\* A row was inserted by one request and later overwritten by another with
\* different values.
C14_Witness ==
    \E row \in restaurants : \E r1, r2 \in Requests :
      /\ row.created_at < row.last_fetched_at
      /\ req[r1].outcome = "ok" /\ req[r2].outcome = "ok"
      /\ \E i \in 1..Len(req[r1].restaurants_data) :
         \E j \in 1..Len(req[r2].restaurants_data) :
           /\ req[r1].restaurants_data[i].google_place_id = row.google_place_id
           /\ req[r2].restaurants_data[j].google_place_id = row.google_place_id
           /\ req[r1].restaurants_data[i].data # req[r2].restaurants_data[j].data
           /\ req[r2].restaurants_data[j].data = row.data
      /\ Cardinality(restaurants) = 2

\* C18: whatever the backend, a failing cache never surfaces to the caller:
\* no request ends with the exception of a cache call.
C18_CacheFaultInvisible ==
    \A r \in Requests : req[r].raised_in \notin {"cache.get", "cache.set"}

\* Every record of the batch of r is in the store.
BatchStored(r) ==
    \A i \in 1..Len(req[r].restaurants_data) :
      \E row \in restaurants :
        row.google_place_id = req[r].restaurants_data[i].google_place_id

C25_OrderState ==
    \A r \in Requests :
      \* while the cache read is pending no provider call has started
      /\ req[r].pc = "check_cache" => req[r].provider_calls = 0
      \* a provider call follows the one cache read, unless it was bypassed
      /\ req[r].provider_calls > 0 =>
           req[r].cache_reads = (IF req[r].skip_cache THEN 0 ELSE 1)
      \* a cache write follows one upsert that did not fail
      /\ req[r].cache_writes # <<>> =>
           /\ req[r].upserts = 1
           /\ req[r].raised_in # "upsert_restaurants"
           /\ req[r].restaurants_data # <<>>

C25_OrderStep ==
    /\ \A r \in Requests :
         /\ req'[r].cache_reads > req[r].cache_reads =>
              req[r].provider_calls = 0 /\ req'[r].provider_calls = 0
         /\ req'[r].provider_calls > req[r].provider_calls =>
              /\ req[r].pc # "check_cache"
              /\ req[r].cache_reads = (IF req[r].skip_cache THEN 0 ELSE 1)
              /\ req'[r].cache_reads = req[r].cache_reads
         /\ Len(req'[r].cache_writes) > Len(req[r].cache_writes) =>
              /\ req[r].upserts = 1 /\ req'[r].upserts = 1
              /\ req[r].restaurants_data # <<>>
              /\ BatchStored(r)
              /\ PlaceIds(req[r].restaurants) = PlaceIds(req[r].restaurants_data)
    \* the cache changes only in such a step
    /\ cache' # cache =>
         \E r \in Requests : Len(req'[r].cache_writes) > Len(req[r].cache_writes)

\* C25: within one request the cache read, when performed, completes before
\* any provider call starts, and the batch upsert completes successfully
\* before the cache write starts; no request writes the cache without a
\* successful upsert before it.
C25_Ordering == []C25_OrderState /\ [][C25_OrderStep]_vars

\* A request read the cache, missed, called the provider, upserted and wrote
\* the cache.
C25_Witness ==
    \E r \in Requests :
      /\ req[r].outcome = "ok"
      /\ req[r].cache_reads = 1
      /\ req[r].provider_calls > 0
      /\ req[r].upserts = 1
      /\ Len(req[r].cache_writes) = 1
      /\ req[r].cache_writes[1].accepted

\* C27: every request that returns successfully, served from the cache or
\* not, returns at most its own max_results entities, also when the entry
\* it is served from was written by a request with another max_results.
C27_ResponseSize ==
    \A r \in Requests :
      req[r].outcome \in {"hit", "empty", "ok"} =>
        Len(req[r].restaurants) <= req[r].max_results

\* C30: the batch a request hands to the upsert store names no provider id
\* twice and holds no record without a provider id (such records are dropped
\* in the merge), and it holds at most max_results records: it is the
\* records search_nearby returned, in their order.
C30_BatchWellFormed ==
    \A r \in Requests :
      LET batch == req[r].restaurants_data
      IN  /\ NoDup(PlaceIds(batch))
          /\ \A i \in 1..Len(batch) : batch[i].google_place_id # 0
          /\ Len(batch) <= req[r].max_results
          /\ req[r].upserts > 0 =>
               /\ batch # <<>>
               /\ PlaceIds(batch) =
                    [i \in 1..Len(req[r].places) |-> req[r].places[i].id]

\* One request upserted a batch as long as its max_results allows; another,
\* allowed two records and answered by two groups, upserted one record.
C30_Witness ==
    \E r1, r2 \in Requests :
      /\ req[r1].upserts = 1
      /\ Len(req[r1].restaurants_data) = req[r1].max_results
      /\ req[r2].upserts = 1
      /\ req[r2].max_results = 2
      /\ req[r2].provider_calls = 2
      /\ ~req[r2].all_groups_failed
      /\ Len(req[r2].restaurants_data) = 1

\* The ways a request ends, told by what the caller gets and by what the
\* request did.
EndsHit(r) ==
    /\ req[r].cached /\ req[r].raised_in = "none"
    /\ req[r].provider_calls = 0
    /\ http_status(req[r].outcome) = 200
EndsEmpty(r) ==
    /\ ~req[r].cached /\ req[r].raised_in = "none"
    /\ req[r].provider_calls > 0 /\ req[r].restaurants = <<>>
    /\ req[r].upserts = 0 /\ req[r].cache_writes = <<>>
    /\ http_status(req[r].outcome) = 200
EndsOk(r) ==
    /\ ~req[r].cached /\ req[r].raised_in = "none"
    /\ req[r].provider_calls > 0 /\ req[r].restaurants # <<>>
    /\ req[r].upserts = 1 /\ Len(req[r].cache_writes) = 1
    /\ http_status(req[r].outcome) = 200
EndsProviderUnavailable(r) ==
    /\ req[r].raised_in = "search_nearby"
    /\ req[r].upserts = 0 /\ req[r].cache_writes = <<>>
    /\ http_status(req[r].outcome) = 503
EndsStorageError(r) ==
    /\ req[r].raised_in \in {"upsert_restaurants", "cache.set"}
    /\ req[r].outcome = "storage_error"
    /\ http_status(req[r].outcome) = 500
EndsCacheReadError(r) ==
    /\ req[r].raised_in = "cache.get" /\ cache_backend = "postgres"
    /\ req[r].outcome = "internal_error"
    /\ http_status(req[r].outcome) = 500
EndsHitLookupError(r) ==
    /\ req[r].raised_in = "get_restaurants_by_place_ids"
    /\ req[r].outcome = "internal_error"
    /\ req[r].provider_calls = 0
    /\ http_status(req[r].outcome) = 500

\* How many of the conditions hold.
HowMany(conds) == Cardinality({i \in DOMAIN conds : conds[i]})

SixOutcomes(r) ==
    <<EndsHit(r), EndsEmpty(r), EndsOk(r), EndsProviderUnavailable(r),
      EndsStorageError(r), EndsCacheReadError(r)>>

SevenOutcomes(r) == Append(SixOutcomes(r), EndsHitLookupError(r))

\* A request that has not ended has no outcome; one that has ended keeps it.
OutcomeOnce(r) == req[r].pc # "done" => req[r].outcome = "none"
OutcomeKept(r) == req[r].pc = "done" => req'[r] = req[r]

\* A request that has arrived ends.
Terminates(r) == (req[r].pc # "idle") ~> (req[r].pc = "done")

\* C31 as stated: provided every operation settles, every request ends in
\* exactly one of: hit response, empty response, successful miss response,
\* provider-unavailable failure, storage-error failure, unhandled internal
\* error from a failing relational cache read; never in two, and it never
\* hangs.
C31_SixOutcomes ==
    /\ [](\A r \in Requests :
            /\ OutcomeOnce(r)
            /\ req[r].pc = "done" => HowMany(SixOutcomes(r)) = 1)
    /\ [][\A r \in Requests : OutcomeKept(r)]_vars
    /\ \A r \in Requests : Terminates(r)

\* C31 amended: the unhandled internal error comes from a failing
\* relational cache read or from a failing store lookup on the hit path.
C31_SevenOutcomes ==
    /\ [](\A r \in Requests :
            /\ OutcomeOnce(r)
            /\ req[r].pc = "done" => HowMany(SevenOutcomes(r)) = 1)
    /\ [][\A r \in Requests : OutcomeKept(r)]_vars
    /\ \A r \in Requests : Terminates(r)

\* Both requests have ended, one with the entities it fetched and cached and
\* one with the error of the store lookup that its cache hit made.
C31_Witness ==
    \E r1, r2 \in Requests :
      /\ req[r1].pc = "done" /\ EndsOk(r1)
      /\ req[r2].pc = "done" /\ EndsHitLookupError(r2)
      /\ req[r2].cached_place_ids = PlaceIds(req[r1].restaurants)

(***************************************************************************)
(* SpecFanout: GooglePlacesClient.search_nearby, one step per group        *)
(* request settling.  A task is in flight or settled with its outcome;     *)
(* `order` lists the groups in the order their requests completed.         *)
(***************************************************************************)
InFlight == [state |-> "in_flight", outcome |-> Failed]
Settled(outcome) == [state |-> "settled", outcome |-> outcome]

InitFanout ==
    /\ cache_backend = "postgres"
    /\ cache = {}
    /\ restaurants = {}
    /\ clock = 0
    /\ req = [r \in Requests |-> IdleRequest]
    /\ fan = IdleFan
    /\ ops = IdleOps
    /\ queries = NoQueries

\* The category lists of a search: none, one category, one more than a
\* request may carry.
FanTypeLists == TypeLists \cup {[i \in 1..(MaxTypesPerRequest + 1) |-> i]}

\* Lines 132-174: the groups are chosen and gather starts one task per
\* group; each runs to its await of client.post.
FanStart ==
    /\ fan.pc = "idle"
    /\ \E types \in FanTypeLists, max_results \in 1..FanoutMaxResults :
         fan' = [fan EXCEPT
                   !.pc = "gather",
                   !.included_types = types,
                   !.max_results = max_results,
                   !.type_groups = type_groups(types),
                   !.tasks = [g \in 1..Len(type_groups(types)) |-> InFlight]]
    /\ UNCHANGED <<cache_backend, cache, restaurants, clock, req, ops, queries>>

\* Lines 160-171: one group request completes, with a response or an error.
FanSettle(g) ==
    /\ fan.pc = "gather"
    /\ g \in DOMAIN fan.tasks
    /\ fan.tasks[g].state = "in_flight"
    /\ \E outcome \in GroupOutcomes(FanoutMaxPerGroup) :
         fan' = [fan EXCEPT !.tasks[g] = Settled(outcome),
                            !.order = Append(@, g)]
    /\ UNCHANGED <<cache_backend, cache, restaurants, clock, req, ops, queries>>

\* A gather in which one failed task empties every result.
gather_all_or_nothing(tasks) ==
    [g \in DOMAIN tasks |->
       IF \E h \in DOMAIN tasks : tasks[h].outcome.failed THEN <<>>
       ELSE fetch_group(g, tasks[g].outcome)]

\* A gather that lists the results as the tasks complete, as
\* asyncio.as_completed would.
gather_in_completion_order(tasks) ==
    [i \in DOMAIN tasks |->
       IF i \in DOMAIN fan.order
       THEN fetch_group(fan.order[i], tasks[fan.order[i]].outcome)
       ELSE <<>>]

\* The list gather returns: the tasks' results in the order of type_groups.
gather(tasks) == [g \in DOMAIN tasks |-> fetch_group(g, tasks[g].outcome)]

\* A search that returns as soon as one task is done, as asyncio.wait with
\* FIRST_COMPLETED would; the tasks still in flight contribute nothing.
FanMerge_on_first_settled ==
    /\ fan.pc = "gather"
    /\ \E g \in DOMAIN fan.tasks : fan.tasks[g].state = "settled"
    /\ LET found == search_result(gather(fan.tasks), fan.max_results)
       IN  fan' = [fan EXCEPT !.pc = "returned",
                              !.result_list = found.result_list,
                              !.places = found.places,
                              !.meta = found.meta]
    /\ UNCHANGED <<cache_backend, cache, restaurants, clock, req, ops, queries>>

\* Lines 174-196: gather returns once every task is done; merge and return.
FanMerge ==
    /\ fan.pc = "gather"
    /\ \A g \in DOMAIN fan.tasks : fan.tasks[g].state = "settled"
    /\ LET found == search_result(gather(fan.tasks), fan.max_results)
       IN  fan' = [fan EXCEPT !.pc = "returned",
                              !.result_list = found.result_list,
                              !.places = found.places,
                              !.meta = found.meta]
    /\ UNCHANGED <<cache_backend, cache, restaurants, clock, req, ops, queries>>

NextFanout ==
    \/ FanStart
    \/ \E g \in 1..NumDefaultGroups : FanSettle(g)
    \/ FanMerge

SpecFanout == InitFanout /\ [][NextFanout]_vars

(***************************************************************************)
(* Properties of search_nearby, checked under SpecFanout.                  *)
(***************************************************************************)
AnsweredGroups == {g \in DOMAIN fan.tasks : ~fan.tasks[g].outcome.failed}
FailedGroups == {g \in DOMAIN fan.tasks : fan.tasks[g].outcome.failed}

\* The provider ids in the response of group g.
GroupIds(g) ==
    {fan.tasks[g].outcome.ids[i] : i \in 1..Len(fan.tasks[g].outcome.ids)} \ {0}

\* The provider ids in the responses of the groups that answered.
UnionIds == UNION {GroupIds(g) : g \in AnsweredGroups}

\* The number of records in the responses of the answered groups 1..n.
RECURSIVE RawCount(_)
RawCount(n) ==
    IF n = 0 THEN 0
    ELSE RawCount(n - 1) +
         (IF n \in AnsweredGroups THEN Len(fan.tasks[n].outcome.ids) ELSE 0)

\* The first answered group whose response carries id, and the first
\* position of id in that response.
FirstGroup(id) ==
    CHOOSE g \in AnsweredGroups :
      /\ id \in GroupIds(g)
      /\ \A h \in AnsweredGroups : id \in GroupIds(h) => g <= h

FirstPos(id) ==
    LET ids == fan.tasks[FirstGroup(id)].outcome.ids
    IN  CHOOSE i \in 1..Len(ids) :
          ids[i] = id /\ \A j \in 1..Len(ids) : ids[j] = id => i <= j

MergedIds == [i \in 1..Len(fan.result_list) |-> fan.result_list[i].id]
ReturnedIds == [i \in 1..Len(fan.places) |-> fan.places[i].id]

\* C8: when group requests fail, search_nearby still returns; a failed group
\* contributes no record, the deduplicated sequence (of which the returned
\* one is the first max_results) holds exactly the ids of the groups that
\* answered, each record coming from a group that answered with it, and
\* raw_places counts the records of the answered groups only.
C8_PartialFailure ==
    /\ (/\ fan.pc = "gather"
        /\ \A g \in DOMAIN fan.tasks : fan.tasks[g].state = "settled") =>
         ENABLED FanMerge
    /\ fan.pc = "returned" =>
         /\ fan.meta.requests_made = Len(fan.tasks)
         /\ fan.meta.raw_places = RawCount(Len(fan.tasks))
         /\ Range(MergedIds) = UnionIds
         /\ Range(ReturnedIds) \subseteq UnionIds
         /\ Len(fan.places) = Min(fan.max_results, Cardinality(UnionIds))
         /\ \A i \in 1..Len(fan.result_list) :
              /\ fan.result_list[i].grp \notin FailedGroups
              /\ fan.result_list[i].grp \in AnsweredGroups
              /\ fan.result_list[i].id \in GroupIds(fan.result_list[i].grp)

C8_Witness ==
    /\ fan.pc = "returned"
    /\ FailedGroups # {}
    /\ AnsweredGroups # {}
    /\ Len(fan.places) = 2
    /\ fan.meta.raw_places = 2

\* C9: the sequence search_nearby builds holds each provider id at most
\* once, holds every provider id of every answered group's response (before
\* truncation), and for an id that several groups returned keeps the record
\* of the first of them.
C9_Dedup ==
    fan.pc = "returned" =>
      /\ NoDup(MergedIds)
      /\ NoDup(ReturnedIds)
      /\ \A g \in AnsweredGroups : GroupIds(g) \subseteq Range(MergedIds)
      /\ \A i \in 1..Len(fan.result_list) :
           fan.result_list[i].grp = FirstGroup(fan.result_list[i].id)

\* One id came back from two groups and twice from one of them.
C9_Witness ==
    /\ fan.pc = "returned"
    /\ \E g, h \in AnsweredGroups :
         /\ g # h
         /\ GroupIds(g) \cap GroupIds(h) # {}
         /\ Len(fan.tasks[g].outcome.ids) > Cardinality(GroupIds(g))
    /\ Len(fan.result_list) = 2

\* C10: search_nearby returns at most max_results records, the first
\* max_results of the deduplicated sequence in merge order (group by group,
\* each response in its own order); truncated is true exactly when the
\* deduplicated count exceeds max_results; unique_places is the count before
\* truncation.
C10_Truncation ==
    fan.pc = "returned" =>
      /\ Len(fan.places) <= fan.max_results
      /\ Len(fan.places) = Min(fan.max_results, Len(fan.result_list))
      /\ \A i \in 1..Len(fan.places) : fan.places[i] = fan.result_list[i]
      /\ \A i, j \in 1..Len(fan.result_list) :
           i < j =>
             \/ FirstGroup(MergedIds[i]) < FirstGroup(MergedIds[j])
             \/ /\ FirstGroup(MergedIds[i]) = FirstGroup(MergedIds[j])
                /\ FirstPos(MergedIds[i]) < FirstPos(MergedIds[j])
      /\ fan.meta.truncated <=> (Cardinality(UnionIds) > fan.max_results)
      /\ fan.meta.unique_places = Cardinality(UnionIds)
      /\ fan.meta.unique_places = Len(fan.result_list)

C10_Witness ==
    /\ fan.pc = "returned"
    /\ fan.meta.truncated
    /\ Len(fan.places) = fan.max_results
    /\ Len(fan.places) < fan.meta.unique_places

\* C20: a non-empty category list makes one group request, carrying the
\* first MaxTypesPerRequest categories at most; no categories make one
\* request per default group, MaxDefaultRequests at most; requests_made is
\* the number of requests issued.
C20_Grouping ==
    fan.pc # "idle" =>
      /\ Len(fan.tasks) = Len(fan.type_groups)
      /\ Len(fan.included_types) > 0 =>
           /\ Len(fan.tasks) = 1
           /\ Len(fan.type_groups[1]) <= MaxTypesPerRequest
           /\ Len(fan.type_groups[1]) =
                Min(Len(fan.included_types), MaxTypesPerRequest)
           /\ \A i \in 1..Len(fan.type_groups[1]) :
                fan.type_groups[1][i] = fan.included_types[i]
      /\ Len(fan.included_types) = 0 =>
           /\ Len(fan.tasks) = Min(Len(DEFAULT_TYPE_GROUPS), MaxDefaultRequests)
           /\ Len(fan.tasks) <= MaxDefaultRequests
           /\ \A g \in 1..Len(fan.tasks) : fan.type_groups[g] = DEFAULT_TYPE_GROUPS[g]
      /\ fan.pc = "returned" =>
           /\ fan.meta.requests_made = Len(fan.tasks)
           /\ Len(fan.order) = Len(fan.tasks)
           /\ Range(fan.order) = DOMAIN fan.tasks

\* A search with more categories than one request carries has returned.
C20_Witness ==
    /\ fan.pc = "returned"
    /\ Len(fan.included_types) > MaxTypesPerRequest
    /\ fan.meta.requests_made = 1
    /\ Len(fan.places) = 2

\* id comes before other where the groups are read in the order of
\* type_groups and each response in its own order.
Before(id, other) ==
    \/ FirstGroup(id) < FirstGroup(other)
    \/ FirstGroup(id) = FirstGroup(other) /\ FirstPos(id) < FirstPos(other)

\* The ids of the answered groups in that order: what the responses alone
\* determine.
IdsInGroupOrder ==
    CHOOSE s \in Orderings(UnionIds) :
      \A i, j \in 1..Len(s) : i < j => Before(s[i], s[j])

\* C29: the records search_nearby returns, their order and the winner of
\* each duplicated provider id are determined by the per-group responses
\* alone, read in group-list order, whatever the order in which the group
\* requests completed.
C29_OrderIndependent ==
    fan.pc = "returned" =>
      /\ MergedIds = IdsInGroupOrder
      /\ ReturnedIds = Take(IdsInGroupOrder, fan.max_results)
      /\ \A i \in 1..Len(fan.places) :
           fan.places[i] = [id |-> IdsInGroupOrder[i],
                            grp |-> FirstGroup(IdsInGroupOrder[i])]

\* The second group completed first; both answered, with one id in common
\* and in different orders, and the first group's records came first.
C29_Witness ==
    /\ fan.pc = "returned"
    /\ fan.order = <<2, 1>>
    /\ AnsweredGroups = {1, 2}
    /\ GroupIds(1) \cap GroupIds(2) # {}
    /\ fan.tasks[1].outcome.ids[1] # fan.tasks[2].outcome.ids[1]
    /\ fan.tasks[2].outcome.ids[1] # 0
    /\ Len(fan.places) = 2
    /\ fan.places[1].id = fan.tasks[1].outcome.ids[1]
    /\ \A i \in 1..2 : fan.places[i].grp = 1

AllSettled == \A g \in DOMAIN fan.tasks : fan.tasks[g].state = "settled"

C26_BarrierState ==
    \* every group request is started when the search starts
    /\ fan.pc \in {"gather", "returned"} =>
         DOMAIN fan.tasks = 1..Len(fan.type_groups)
    \* nothing is merged while the search is gathering
    /\ fan.pc \in {"idle", "gather"} =>
         fan.result_list = <<>> /\ fan.places = <<>>
    \* a request in flight can still settle, whatever its siblings did
    /\ fan.pc = "gather" =>
         \A g \in DOMAIN fan.tasks :
           fan.tasks[g].state = "in_flight" => ENABLED FanSettle(g)
    \* the search has returned only with every request settled, and with the
    \* records of every request that answered
    /\ fan.pc = "returned" =>
         /\ AllSettled
         /\ Len(fan.order) = Len(fan.tasks)
         /\ UnionIds \subseteq Range(MergedIds)

C26_BarrierStep ==
    /\ (fan.pc = "gather" /\ fan'.pc = "returned") =>
         AllSettled /\ fan'.tasks = fan.tasks
    /\ (fan.pc = "gather" /\ fan'.pc = "gather") =>
         \A g \in DOMAIN fan.tasks :
           \* a settled request keeps its outcome
           /\ fan.tasks[g].state = "settled" => fan'.tasks[g] = fan.tasks[g]
           \* a request that settles leaves its siblings as they were
           /\ fan'.tasks[g] # fan.tasks[g] =>
                \A h \in DOMAIN fan.tasks \ {g} : fan'.tasks[h] = fan.tasks[h]

\* C26: all group requests of a search are started before any result is
\* merged, the search returns only after every group request has settled,
\* and the failure of one group request neither cancels nor discards a
\* sibling.
C26_Barrier == []C26_BarrierState /\ [][C26_BarrierStep]_vars

\* The search returned the records of a group that answered after its
\* sibling had failed.
C26_Witness ==
    /\ fan.pc = "returned"
    /\ Len(fan.order) = 2
    /\ fan.order[1] \in FailedGroups
    /\ fan.order[2] \in AnsweredGroups
    /\ GroupIds(fan.order[2]) # {}
    /\ Range(ReturnedIds) = GroupIds(fan.order[2])

(***************************************************************************)
(* SpecStale: one request against a cache and a store as earlier requests  *)
(* left them, rows having since been removed from the restaurants table by *)
(* something other than this service (nothing here deletes one).           *)
(***************************************************************************)
\* The id lists an earlier cache write may have stored.
CachedIdLists == {ids \in SeqsUpTo(1..NumIds, NumIds) : ids # <<>> /\ NoDup(ids)}

\* The row an earlier upsert stored for a provider id.
StoredRow(place_id) ==
    [id |-> NumIds + place_id, google_place_id |-> place_id, data |-> 1,
     last_fetched_at |-> 0, created_at |-> 0]

\* Every key holds the entry a cache.set of place_ids at time 0 left.
CacheHolding(backend, place_ids) ==
    UNION {cache_set(backend, {}, key, place_ids, nearby_cache_ttl_seconds,
                     0, TRUE).cache : key \in CacheKeys}

InitStale ==
    /\ cache_backend \in {"postgres", "redis"}
    /\ \E place_ids \in CachedIdLists : cache = CacheHolding(cache_backend, place_ids)
    /\ \E kept \in SUBSET (1..NumIds) : restaurants = {StoredRow(i) : i \in kept}
    /\ clock = 0
    /\ req = [r \in Requests |-> IdleRequest]
    /\ fan = IdleFan
    /\ ops = IdleOps
    /\ queries = NoQueries

\* The one request.
StaleRequest == 1

NextStale ==
    \/ StartRequest(StaleRequest)
    \/ CheckCache(StaleRequest)
    \/ HitReturn(StaleRequest)
    \/ FetchRaises(StaleRequest)
    \/ Fetch(StaleRequest)
    \/ Upsert(StaleRequest)
    \/ CacheWrite(StaleRequest)

SpecStale == InitStale /\ [][NextStale]_vars

\* The provider ids the store has a row for.
StoredIds == {row.google_place_id : row \in restaurants}

C19_StaleState ==
    \A r \in Requests : req[r].outcome = "hit" =>
      /\ req[r].cached
      /\ http_status(req[r].outcome) = 200
      /\ req[r].provider_calls = 0
      /\ req[r].upserts = 0
      /\ NoDup(PlaceIds(req[r].restaurants))
      /\ Range(PlaceIds(req[r].restaurants)) =
           Range(req[r].cached_place_ids) \cap StoredIds
      /\ Range(req[r].restaurants) \subseteq restaurants

C19_StaleStep ==
    \A r \in Requests :
      Leaves(r, "hit_lookup") =>
        \* the lookup failing aside, the request is answered from the cache,
        \* however few of the ids resolve
        /\ req'[r].pc = "done"
        /\ req'[r].raised_in = "none" => req'[r].outcome = "hit"
        /\ req'[r].raised_in # "none" =>
             req'[r].raised_in = "get_restaurants_by_place_ids"
        /\ restaurants' = restaurants /\ cache' = cache

\* C19: on a hit, cached ids without a row in the store are dropped: with
\* no error and no provider call the response holds exactly the rows whose
\* provider id is cached and stored, be they none, with cached = true.
C19_StaleIds == []C19_StaleState /\ [][C19_StaleStep]_vars

\* Of two cached ids only one resolved.
C19_Witness ==
    \E r \in Requests :
      /\ req[r].outcome = "hit"
      /\ Len(req[r].cached_place_ids) = 2
      /\ Len(req[r].restaurants) = 1
      /\ req[r].cached

(***************************************************************************)
(* SpecCache: the cache backend called directly, one step per call of get, *)
(* set, delete and cleanup_expired, with the clock advancing in between.   *)
(***************************************************************************)
\* The id lists and TTLs the direct calls of set pass.
CacheIdLists == {<<1>>, <<2, 1>>}
Ttls == {0, TickSeconds, 2 * TickSeconds}

\* What set returns (None).
Done == [kind |-> "done"]

InitCache ==
    /\ cache_backend \in {"postgres", "redis"}
    /\ cache = {}
    /\ restaurants = {}
    /\ clock = 0
    /\ req = [r \in Requests |-> IdleRequest]
    /\ fan = IdleFan
    /\ ops = IdleOps
    /\ queries = NoQueries

\* The record of a call just made.
Called(op, key, ok, result, raised) ==
    [op |-> op, key |-> key, at |-> clock, ok |-> ok, result |-> result,
     raised |-> raised, after_failure |-> ~ops.last.ok]

\* await cache.get(key)
CacheGet(key) ==
    /\ \E ok \in BOOLEAN :
         LET got == cache_get(cache_backend, cache, key, clock, ok)
         IN  ops' = [ops EXCEPT !.last = Called("get", key, ok, got, got = Raised)]
    /\ UNCHANGED <<cache_backend, cache, restaurants, clock, req, fan, queries>>

\* await cache.set(key, place_ids, ttl_seconds)
CacheSet(key) ==
    /\ \E ok \in BOOLEAN, place_ids \in CacheIdLists, ttl_seconds \in Ttls :
         LET written == cache_set(cache_backend, cache, key, place_ids,
                                  ttl_seconds, clock, ok)
         IN  /\ cache' = written.cache
             /\ ops' = [ops EXCEPT
                          !.last = Called("set", key, ok,
                                          IF written.raised THEN Raised ELSE Done,
                                          written.raised),
                          !.last_set[key] =
                              IF ok
                              THEN [made |-> TRUE, place_ids |-> place_ids,
                                    ttl_seconds |-> ttl_seconds, at |-> clock,
                                    removed |-> FALSE]
                              ELSE @]
    /\ UNCHANGED <<cache_backend, restaurants, clock, req, fan, queries>>

\* await cache.delete(key)
CacheDelete(key) ==
    /\ \E ok \in BOOLEAN :
         LET deleted == cache_delete(cache_backend, cache, key, clock, ok)
         IN  /\ cache' = deleted.cache
             /\ ops' = [ops EXCEPT
                          !.last = Called("delete", key, ok, deleted.result,
                                          deleted.raised),
                          !.last_set[key].removed = @ \/ (ok /\ ~deleted.raised)]
    /\ UNCHANGED <<cache_backend, restaurants, clock, req, fan, queries>>

\* await cache.cleanup_expired()
CacheCleanup ==
    /\ \E ok \in BOOLEAN :
         LET cleaned == cache_cleanup_expired(cache_backend, cache, clock, ok)
         IN  /\ cache' = cleaned.cache
             /\ ops' = [ops EXCEPT
                          !.last = Called("cleanup_expired", <<>>, ok,
                                          cleaned.result, cleaned.raised)]
    /\ UNCHANGED <<cache_backend, restaurants, clock, req, fan, queries>>

\* Time passes.
CacheTick ==
    /\ clock + TickSeconds <= CacheMaxTicks * TickSeconds
    /\ clock' = clock + TickSeconds
    /\ UNCHANGED <<cache_backend, cache, restaurants, req, fan, ops, queries>>

NextCache ==
    \/ \E key \in CacheKeys :
         \/ CacheGet(key)
         \/ CacheSet(key)
         \/ CacheDelete(key)
    \/ CacheCleanup
    \/ CacheTick

SpecCache == InitCache /\ [][NextCache]_vars

(***************************************************************************)
(* Properties of the cache backends, checked under SpecCache.              *)
(***************************************************************************)
\* The last call was op on key, and the clock has not moved since.
LastCall(op, key) == ops.last.op = op /\ ops.last.key = key /\ ops.last.at = clock

\* The entries stored under key that have not expired.
LiveRows(c, key) == {e \in c : e.cache_key = key /\ e.expires_at > clock}

\* The id list a stored entry holds.
RowIds(e) == IF cache_backend = "redis" THEN e.data.json ELSE e.restaurant_place_ids

\* C15: get never returns an entry whose expiry is at or before the current
\* time, and after set(k, ids, 0) and a positive advance of the clock,
\* get(k) is absent whatever k held before.
C15_ExpiredInvisible ==
    \A k \in CacheKeys :
      /\ (LastCall("get", k) /\ ops.last.result.kind = "ids") =>
           \E e \in LiveRows(cache, k) : ops.last.result = Ids(RowIds(e))
      /\ (/\ LastCall("get", k) /\ ops.last.ok
          /\ ops.last_set[k].made
          /\ ops.last_set[k].ttl_seconds = 0
          /\ clock > ops.last_set[k].at) =>
           ops.last.result = Absent

\* C16: while the clock has not passed the expiry of the most recent set of
\* k (ttl > 0, no delete since), the one entry of k has the ids and the
\* expiry of that set and get(k) returns those ids; once the clock has
\* reached that expiry, get(k) is absent, whatever earlier sets promised.
C16_RoundTrip ==
    \A k \in CacheKeys :
      LET w == ops.last_set[k]
      IN  (w.made /\ w.ttl_seconds > 0 /\ ~w.removed) =>
            /\ clock < w.at + w.ttl_seconds =>
                 /\ RowsOf(cache, k) =
                      {CacheRow(cache_backend, k, w.place_ids, w.at + w.ttl_seconds)}
                 /\ (LastCall("get", k) /\ ops.last.ok) =>
                      ops.last.result = Ids(w.place_ids)
            /\ (clock >= w.at + w.ttl_seconds /\ LastCall("get", k)) =>
                 ops.last.result.kind # "ids"

\* get returned the ids of the most recent set a tick after it, the other
\* key holding an entry of its own.
C16_Witness ==
    \E k \in CacheKeys :
      /\ LastCall("get", k) /\ ops.last.ok
      /\ ops.last.result = Ids(<<2, 1>>)
      /\ ops.last_set[k].at < clock
      /\ \E e \in cache : e.cache_key # k

C17_DegradedState ==
    cache_backend = "redis" =>
      /\ ~ops.last.raised
      /\ ops.last.result # Raised
      /\ ~ops.last.ok =>
           /\ ops.last.op = "get" => ops.last.result = Absent
           /\ ops.last.op = "set" => ops.last.result = Done
           /\ ops.last.op = "delete" => ops.last.result = Bool(FALSE)

C17_DegradedStep ==
    (cache_backend = "redis" /\ ops' # ops) =>
      LET k == ops'.last.key
      IN  \* a call the backend failed changes nothing
          /\ ~ops'.last.ok => cache' = cache /\ ops'.last_set = ops.last_set
          \* the call after a failed one works as any other
          /\ (ops'.last.ok /\ ops'.last.after_failure) =>
               /\ ops'.last.op = "get" =>
                    /\ cache' = cache
                    /\ LiveRows(cache, k) = {} => ops'.last.result = Absent
                    /\ \A e \in LiveRows(cache, k) :
                         ops'.last.result = Ids(RowIds(e))
               /\ (ops'.last.op = "set" /\ ops'.last_set[k].ttl_seconds > 0) =>
                    RowsOf(cache', k) =
                      {CacheRow("redis", k, ops'.last_set[k].place_ids,
                                clock + ops'.last_set[k].ttl_seconds)}
               /\ ops'.last.op = "delete" =>
                    /\ ops'.last.result = Bool(LiveRows(cache, k) # {})
                    /\ RowsOf(cache', k) = {}

\* C17: in the Redis backend a backend error during get yields absent,
\* during set a no-op, during delete false; no call raises, and the call
\* that follows a failed one works normally.
C17_RedisDegrades == []C17_DegradedState /\ [][C17_DegradedStep]_vars

\* A set failed and left the entry alone; the get that followed returned it.
C17_Witness ==
    /\ cache_backend = "redis"
    /\ ops.last.op = "get" /\ ops.last.ok /\ ops.last.after_failure
    /\ ops.last.result.kind = "ids"
    /\ ops.last.result # Ids(ops.last_set[ops.last.key].place_ids)

\* The step is a call of cleanup_expired.
CleanupCall == ops'.last.op = "cleanup_expired" /\ ops' # ops

C23_CleanupState ==
    ops.last.op = "cleanup_expired" => ~ops.last.raised /\ ops.last.result # Raised

C23_CleanupStep ==
    CleanupCall =>
      LET expired == {e \in cache : e.expires_at <= clock}
      IN  /\ ~ops'.last.raised
          /\ cache_backend = "postgres" =>
               /\ cache' = cache \ expired
               /\ ops'.last.result = Count(Cardinality(expired))
          /\ cache_backend = "redis" =>
               /\ cache' = cache
               /\ ops'.last.result = Count(0)

\* C23: cleanup_expired of the relational backend removes every entry whose
\* expiry has passed and no other and returns the number removed; that of
\* the native-expiry backend changes nothing and returns 0; neither raises.
C23_CleanupExpired == []C23_CleanupState /\ [][C23_CleanupStep]_vars

\* What a cleanup_expired call the backend answers does: the part of C23
\* that is about the entries and the count.
C23_AnsweredCleanupStep ==
    (CleanupCall /\ ops'.last.ok) => C23_CleanupStep

C23_AnsweredCleanup == [][C23_AnsweredCleanupStep]_vars

\* The step is a call of delete that the backend answered.
DeleteCall == ops'.last.op = "delete" /\ ops' # ops /\ ops'.last.ok

\* The entries the backend holds under key: a Redis key past its expiry is
\* no longer there.
Held(c, key) == IF cache_backend = "redis" THEN LiveRows(c, key) ELSE RowsOf(c, key)

C24_DeleteStep ==
    DeleteCall =>
      LET k == ops'.last.key
      IN  /\ ~ops'.last.raised
          /\ ops'.last.result = Bool(Held(cache, k) # {} /\ Held(cache', k) = {})
          /\ Held(cache', k) = {}
          /\ OtherRows(cache', k) = OtherRows(cache, k)

C24_DeletedState ==
    \A k \in CacheKeys :
      ops.last_set[k].removed =>
        /\ Held(cache, k) = {}
        /\ LastCall("get", k) => ops.last.result.kind # "ids"

\* C24: delete(key) returns true if and only if an entry for the key
\* existed and this call removed it; after it get(key) is absent until the
\* next set(key), and the entries of other keys are unchanged.
C24_Delete == []C24_DeletedState /\ [][C24_DeleteStep]_vars

\* get(k) was absent after a delete of k that followed a set of k, the
\* other key still holding its live entry.
C24_Witness ==
    \E k \in CacheKeys :
      /\ LastCall("get", k) /\ ops.last.ok
      /\ ops.last.result = Absent
      /\ ops.last_set[k].made /\ ops.last_set[k].removed
      /\ ops.last_set[k].ttl_seconds > 0
      /\ clock < ops.last_set[k].at + ops.last_set[k].ttl_seconds
      /\ \E e \in cache : e.cache_key # k /\ e.expires_at > clock

(***************************************************************************)
(* SpecKey: two request bodies.  For each the handler builds the cache key *)
(* (main.py 163-168) and, on a miss, search_nearby chooses the categories  *)
(* of its provider request (main.py 190-196, google_places.py 136-140).    *)
(***************************************************************************)
Queries == {1, 2}

\* Coordinates in ten-thousandths of a degree, on both sides of a rounding
\* boundary and on both sides of zero.
KeyLats == {-4, 4, 407124, 407126, 407131}
KeyLngs == {-740060, -740066}
KeyRadii == {1500, 3000}

\* One category more than a provider request takes, in two orders.
LongTypes == [i \in 1..(MaxTypesPerRequest + 1) |-> i]
LongTypesRotated ==
    [i \in 1..(MaxTypesPerRequest + 1) |->
       IF i = 1 THEN MaxTypesPerRequest + 1 ELSE i - 1]

\* included_types: None and [] are both <<>>.
KeyTypeLists == {<<>>, <<1>>, <<1, 2>>, <<2, 1>>, <<3, 1, 2>>, <<2, 3, 1>>,
                 LongTypes, LongTypesRotated}

\* A request body received: NearbySearchRequest.
ReceivedQuery(lat, lng, radius, types) ==
    [pc |-> "received", lat |-> lat, lng |-> lng, radius |-> radius,
     included_types |-> types, cache_key |-> <<>>, type_groups |-> <<>>]

InitKey ==
    /\ cache_backend \in {"postgres", "redis"}
    /\ cache = {}
    /\ restaurants = {}
    /\ clock = 0
    /\ req = [r \in Requests |-> IdleRequest]
    /\ fan = IdleFan
    /\ ops = IdleOps
    /\ queries \in [Queries -> {ReceivedQuery(lat, lng, radius, types) :
                                  lat \in KeyLats, lng \in KeyLngs,
                                  radius \in KeyRadii, types \in KeyTypeLists}]

\* main.py 163-168: cache_key = generate_cache_key(...)
BuildKey(q) ==
    /\ queries[q].pc = "received"
    /\ queries' = [queries EXCEPT
                     ![q].cache_key = generate_cache_key(queries[q].lat,
                                                         queries[q].lng,
                                                         queries[q].radius,
                                                         queries[q].included_types),
                     ![q].pc = "keyed"]
    /\ UNCHANGED <<cache_backend, cache, restaurants, clock, req, fan, ops>>

\* main.py 190-196 and google_places.py 136-140: on a miss search_nearby is
\* given request.included_types and chooses the groups it requests.
SearchGroups(q) ==
    /\ queries[q].pc = "keyed"
    /\ queries' = [queries EXCEPT
                     ![q].type_groups = type_groups(queries[q].included_types),
                     ![q].pc = "searched"]
    /\ UNCHANGED <<cache_backend, cache, restaurants, clock, req, fan, ops>>

NextKey == \E q \in Queries : BuildKey(q) \/ SearchGroups(q)

SpecKey == InitKey /\ [][NextKey]_vars

(***************************************************************************)
(* Properties of the cache key, checked under SpecKey.                     *)
(***************************************************************************)
Abs(x) == IF x < 0 THEN -x ELSE x

Keyed(q) == queries[q].pc # "received"

\* The two bodies name the same categories, each once, in whatever order.
SameCategorySet(q1, q2) ==
    /\ NoDup(queries[q1].included_types)
    /\ NoDup(queries[q2].included_types)
    /\ Range(queries[q1].included_types) = Range(queries[q2].included_types)

SameToThreeDecimals(x, y) ==
    /\ (x < 0) = (y < 0)
    /\ Abs(x) \div 10 = Abs(y) \div 10

\* x and y have the same sign and lie less than half a thousandth from the
\* same thousandth.
NearSameThousandth(x, y) ==
    /\ (x < 0) = (y < 0)
    /\ \E k \in {Abs(x) \div 10, Abs(x) \div 10 + 1} :
         /\ 10 * k - 5 < Abs(x) /\ Abs(x) < 10 * k + 5
         /\ 10 * k - 5 < Abs(y) /\ Abs(y) < 10 * k + 5

SameRadiusAndCategories(q1, q2) ==
    /\ queries[q1].radius = queries[q2].radius
    /\ queries[q1].included_types = queries[q2].included_types

\* C22 as stated: two queries with the same radius and categories whose
\* coordinates differ only in the fourth or a later decimal place have the
\* same key.
C22_SubPrecision ==
    \A q1, q2 \in Queries :
      (/\ Keyed(q1) /\ Keyed(q2)
       /\ SameRadiusAndCategories(q1, q2)
       /\ SameToThreeDecimals(queries[q1].lat, queries[q2].lat)
       /\ SameToThreeDecimals(queries[q1].lng, queries[q2].lng))
      => queries[q1].cache_key = queries[q2].cache_key

\* C22 amended: two queries with the same radius and categories whose
\* latitudes, and whose longitudes, have the same sign and lie less than
\* 0.0005 from the same multiple of 0.001 have the same key.
C22_SameRounding ==
    \A q1, q2 \in Queries :
      (/\ Keyed(q1) /\ Keyed(q2)
       /\ SameRadiusAndCategories(q1, q2)
       /\ NearSameThousandth(queries[q1].lat, queries[q2].lat)
       /\ NearSameThousandth(queries[q1].lng, queries[q2].lng))
      => queries[q1].cache_key = queries[q2].cache_key

\* Two keys were built for latitudes that round to one thousandth from its
\* two sides, and for longitudes that do so too.
C22_Witness ==
    \E q1, q2 \in Queries :
      /\ Keyed(q1) /\ Keyed(q2)
      /\ SameRadiusAndCategories(q1, q2)
      /\ NearSameThousandth(queries[q1].lat, queries[q2].lat)
      /\ NearSameThousandth(queries[q1].lng, queries[q2].lng)
      /\ ~SameToThreeDecimals(queries[q1].lat, queries[q2].lat)

\* The categories search_nearby sends to the provider.
SentCategories(q) ==
    UNION {Range(queries[q].type_groups[g]) : g \in 1..Len(queries[q].type_groups)}

\* C28: two requests for the same latitude, longitude and radius whose
\* category lists are equal as sets share a key and send the same set of
\* categories to the provider on a miss, for lists of any length.
C28_SameProviderQuery ==
    \A q1, q2 \in Queries :
      (/\ queries[q1].pc = "searched" /\ queries[q2].pc = "searched"
       /\ queries[q1].lat = queries[q2].lat
       /\ queries[q1].lng = queries[q2].lng
       /\ queries[q1].radius = queries[q2].radius
       /\ SameCategorySet(q1, q2)
       /\ queries[q1].cache_key = queries[q2].cache_key)
      => SentCategories(q1) = SentCategories(q2)

====
